---------------------------- MODULE Spec2Model ----------------------------
(***************************************************************************)
(* Model of the inline-code / fancy-code presentation classes:             *)
(*   FC  (src/unnamed/part_001)  and  IC  (src/src/index.js).              *)
(*                                                                         *)
(* A text is a sequence of one-character strings; "\n" is the line break.  *)
(* A frame is the <pre> element built for one snapshot of a group: the     *)
(* ordered line elements (class and text) and, in FC, the parallel list of *)
(* line-number elements.                                                   *)
(*                                                                         *)
(* The text of a line element is its text content: highlighting (FC) adds  *)
(* markup around it and leaves it as it is.  The children of this.code are *)
(* kept by identity (parse call, group, index): the elements of the last   *)
(* build are the ones held in codeBlockElMap, earlier ones are never       *)
(* touched again.  IC assigns to undeclared loop variables; it is modelled *)
(* as the plain script it is written as, where that is an assignment to a  *)
(* global.  offsetTop and clientHeight come from the browser's layout and  *)
(* are given by OffsetTop and ClientHeight.                                *)
(***************************************************************************)
EXTENDS Integers, Sequences, FiniteSets, TLC

VARIABLES
    variant,          \* which class the instance is: "FC" or "IC"
    markdown,         \* children of this.markdown that matter: markers and <pre> blocks
    codeBlockMap,     \* this.codeBlockMap: insertion-ordered <<name, blocks>> entries
    codeBlockElMap,   \* this.codeBlockElMap: insertion-ordered <<name, frames>> entries
    code,             \* children of this.code, in append order
    parses,           \* number of parse calls made so far
    threw,            \* whether the last parse call ended with an exception
    document,         \* the rendered document the last parse call was given
    scrollY,          \* window.scrollY
    innerHeight       \* window.innerHeight

vars == <<variant, markdown, codeBlockMap, codeBlockElMap, code, parses, threw, document,
          scrollY, innerHeight>>

-----------------------------------------------------------------------------
(* Bounds of the model *)

MaxLines == 2         \* lines per generated snapshot text
MaxBlocks == 2        \* <pre> blocks per document
MaxParses == 2        \* parse calls per behaviour

-----------------------------------------------------------------------------
(* Characters and strings *)

NL == "\n"
Digits == <<"0", "1", "2", "3", "4", "5", "6", "7", "8", "9">>
DigitSet == {Digits[i] : i \in 1..10}
\* \s of a JavaScript regular expression, restricted to the characters in use
WhiteSpace == {" ", NL}

RECURSIVE Concat(_)
Concat(ss) == IF ss = <<>> THEN <<>> ELSE Head(ss) \o Concat(Tail(ss))

\* String.prototype.split("\n"): always at least one piece
RECURSIVE SplitNL(_)
SplitNL(s) ==
    IF \A i \in 1..Len(s) : s[i] # NL
    THEN <<s>>
    ELSE LET k == CHOOSE i \in 1..Len(s) : s[i] = NL /\ \A j \in 1..(i-1) : s[j] # NL
         IN  <<SubSeq(s, 1, k-1)>> \o SplitNL(SubSeq(s, k+1, Len(s)))

\* Array.prototype.join("\n")
RECURSIVE JoinNL(_)
JoinNL(ls) ==
    IF ls = <<>> THEN <<>>
    ELSE IF Len(ls) = 1 THEN ls[1]
    ELSE ls[1] \o <<NL>> \o JoinNL(Tail(ls))

\* `${n}` for a non-negative integer
RECURSIVE DecimalString(_)
DecimalString(n) ==
    IF n < 10 THEN <<Digits[n + 1]>>
    ELSE DecimalString(n \div 10) \o <<Digits[(n % 10) + 1]>>

\* line.replace(/^\d:\s/, "")
StripNumberPrefix(line) ==
    IF Len(line) >= 3 /\ line[1] \in DigitSet /\ line[2] = ":" /\ line[3] \in WhiteSpace
    THEN SubSeq(line, 4, Len(line))
    ELSE line

\* value.replace(/\n$/, "")
StripFinalNL(s) ==
    IF Len(s) >= 1 /\ s[Len(s)] = NL THEN SubSeq(s, 1, Len(s) - 1) ELSE s

-----------------------------------------------------------------------------
(* diff.diffLines of the `diff` package, as called with newlineIsToken:    *)
(* false.  The package is required by the classes and is not part of the   *)
(* repository; the definitions follow its line tokenizer (lineDiff         *)
(* .tokenize), its edit-graph search (Diff.diff, execEditLength,           *)
(* extractCommon) and the building of the change objects (buildValues) as  *)
(* in its 3.x and 4.x releases.  Positions are 0-based as there, so token  *)
(* p of a list is element p + 1 of the sequence.                           *)

\* lineDiff.tokenize followed by removeEmpty: every line keeps its line break,
\* the empty piece after a final line break is dropped
RECURSIVE TokenizeLines(_)
TokenizeLines(s) ==
    IF s = <<>> THEN <<>>
    ELSE IF \A i \in 1..Len(s) : s[i] # NL THEN <<s>>
    ELSE LET k == CHOOSE i \in 1..Len(s) : s[i] = NL /\ \A j \in 1..(i-1) : s[j] # NL
         IN  <<SubSeq(s, 1, k)>> \o TokenizeLines(SubSeq(s, k+1, Len(s)))

NoPath == [defined |-> FALSE, newPos |-> -1, components |-> <<>>]
StartPath == [defined |-> TRUE, newPos |-> -1, components |-> <<>>]

\* Diff.extractCommon: follow the diagonal while the tokens are equal
RECURSIVE ExtractCommon(_, _, _, _)
ExtractCommon(path, new, old, diagonalPath) ==
    LET newPos == path.newPos
        oldPos == newPos - diagonalPath
    IN  IF /\ newPos + 1 < Len(new)
           /\ oldPos + 1 < Len(old)
           /\ new[newPos + 2] = old[oldPos + 2]
        THEN ExtractCommon([path EXCEPT !.newPos = newPos + 1,
                                        !.components = Append(@, "same")],
                           new, old, diagonalPath)
        ELSE path

PathDone(path, new, old, diagonalPath) ==
    /\ path.newPos + 1 >= Len(new)
    /\ (path.newPos - diagonalPath) + 1 >= Len(old)

\* execEditLength: one pass over the diagonals -editLength, -editLength+2, ...,
\* from diagonalPath on; either the finished path or the updated bestPath
RECURSIVE ExecEditLength(_, _, _, _, _)
ExecEditLength(bestPath, diagonalPath, editLength, new, old) ==
    IF diagonalPath > editLength
    THEN [done |-> FALSE, bestPath |-> bestPath, components |-> <<>>]
    ELSE
    LET addPath    == bestPath[diagonalPath - 1]
        removePath == bestPath[diagonalPath + 1]
        oldPos     == (IF removePath.defined THEN removePath.newPos ELSE 0) - diagonalPath
        cleared    == [bestPath EXCEPT ![diagonalPath - 1] = NoPath]
        canAdd     == addPath.defined /\ addPath.newPos + 1 < Len(new)
        canRemove  == removePath.defined /\ 0 <= oldPos /\ oldPos < Len(old)
    IN  IF ~canAdd /\ ~canRemove
        THEN ExecEditLength([cleared EXCEPT ![diagonalPath] = NoPath],
                            diagonalPath + 2, editLength, new, old)
        ELSE
        LET pushed == IF ~canAdd \/ (canRemove /\ addPath.newPos < removePath.newPos)
                      THEN [removePath EXCEPT !.components = Append(@, "removed")]
                      ELSE [addPath EXCEPT !.newPos = @ + 1,
                                           !.components = Append(@, "added")]
            basePath == ExtractCommon(pushed, new, old, diagonalPath)
        IN  IF PathDone(basePath, new, old, diagonalPath)
            THEN [done |-> TRUE, bestPath |-> bestPath, components |-> basePath.components]
            ELSE ExecEditLength([cleared EXCEPT ![diagonalPath] = basePath],
                                diagonalPath + 2, editLength, new, old)

\* while (editLength <= maxEditLength) execEditLength()
RECURSIVE EditLoop(_, _, _, _)
EditLoop(bestPath, editLength, new, old) ==
    LET pass == ExecEditLength(bestPath, -editLength, editLength, new, old)
    IN  IF pass.done THEN pass.components
        ELSE EditLoop(pass.bestPath, editLength + 1, new, old)

\* pushComponent / extractCommon keep one component per run of equal kinds
RECURSIVE Runs(_)
Runs(ops) ==
    IF ops = <<>> THEN <<>>
    ELSE LET rest == Runs(Tail(ops))
         IN  IF rest # <<>> /\ rest[1].kind = Head(ops)
             THEN <<[kind |-> Head(ops), count |-> rest[1].count + 1]>> \o Tail(rest)
             ELSE <<[kind |-> Head(ops), count |-> 1]>> \o rest

\* buildValues: give every component its text; a removal that follows an
\* addition is moved in front of it
RECURSIVE BuildValues(_, _, _, _, _, _)
BuildValues(components, componentPos, newPos, oldPos, new, old) ==
    IF componentPos > Len(components) THEN components
    ELSE
    LET c == components[componentPos]
    IN  IF c.kind # "removed"
        THEN LET v == [kind |-> c.kind, count |-> c.count,
                       value |-> Concat(SubSeq(new, newPos + 1, newPos + c.count))]
             IN  BuildValues([components EXCEPT ![componentPos] = v], componentPos + 1,
                             newPos + c.count,
                             IF c.kind = "same" THEN oldPos + c.count ELSE oldPos,
                             new, old)
        ELSE LET v == [kind |-> c.kind, count |-> c.count,
                       value |-> Concat(SubSeq(old, oldPos + 1, oldPos + c.count))]
                 swap == componentPos > 1 /\ components[componentPos - 1].kind = "added"
                 next == IF swap
                         THEN [components EXCEPT ![componentPos - 1] = v,
                                                 ![componentPos] = components[componentPos - 1]]
                         ELSE [components EXCEPT ![componentPos] = v]
             IN  BuildValues(next, componentPos + 1, newPos, oldPos + c.count, new, old)

\* Diff.diff for the line differ: the list of change objects
diffLines(oldString, newString) ==
    LET old == TokenizeLines(oldString)
        new == TokenizeLines(newString)
        span == Len(old) + Len(new) + 2
        first == ExtractCommon(StartPath, new, old, 0)
        bestPath == [d \in (-span)..span |-> IF d = 0 THEN first ELSE NoPath]
    IN  IF PathDone(first, new, old, 0)
        THEN <<[kind |-> "same", count |-> Len(new), value |-> Concat(new)]>>
        ELSE BuildValues(Runs(EditLoop(bestPath, 1, new, old)), 1, 0, 0, new, old)

-----------------------------------------------------------------------------
(* Line elements and frames *)

Added == "__ic_added"
Removed == "__ic_removed"
Same == "__ic_same"

\* a <div class="__ic_line ..."> of a frame
\* opacity and marginLeft are the element's style.opacity and style.marginLeft,
\* "" while never assigned
LineEl(cls, text) ==
    [cls |-> cls, text |-> text, collapsed |-> FALSE, opacity |-> "", marginLeft |-> ""]

\* _addLinesToCodeBlock: the lines of a <code> element's content
AddLinesToCodeBlock(v, content) ==
    LET lines == SplitNL(content)
    IN  IF v = "IC"
        THEN [i \in 1..Len(lines) |-> DecimalString(i) \o <<":", " ">> \o lines[i]]
        ELSE lines

\* _generateSingleForCode: every line of the block as an added line
GenerateSingleForCode(block) == [i \in 1..Len(block) |-> LineEl(Added, block[i])]

\* the text given to el.innerHTML for one line of a change object
DiffLineText(v, lineNumber, line) ==
    IF v = "IC" THEN DecimalString(lineNumber) \o <<":", " ">> \o line ELSE line

\* the forEach over the lines of one change object
RECURSIVE LinesOfResult(_, _, _, _)
LinesOfResult(v, kind, split, lineNumber) ==
    IF split = <<>> THEN <<>>
    ELSE <<LineEl(CASE kind = "added" -> Added
                    [] kind = "removed" -> Removed
                    [] OTHER -> Same,
                  DiffLineText(v, lineNumber, Head(split)))>>
         \o LinesOfResult(v, kind, Tail(split),
                          IF kind = "removed" THEN lineNumber ELSE lineNumber + 1)

\* diffResults.forEach of _generateDiffsForCode
RECURSIVE ElementsOfResults(_, _, _)
ElementsOfResults(v, diffResults, lineNumber) ==
    IF diffResults = <<>> THEN <<>>
    ELSE LET result == Head(diffResults)
             split == SplitNL(StripFinalNL(result.value))
         IN  LinesOfResult(v, result.kind, split, lineNumber)
             \o ElementsOfResults(v, Tail(diffResults),
                                  IF result.kind = "removed" THEN lineNumber
                                  ELSE lineNumber + Len(split))

\* _generateDiffsForCode
GenerateDiffsForCode(v, lastBlock, block) ==
    LET lastBlockLines == JoinNL([i \in 1..Len(lastBlock) |-> StripNumberPrefix(lastBlock[i])])
        currentBlockLines == JoinNL([i \in 1..Len(block) |-> StripNumberPrefix(block[i])])
    IN  ElementsOfResults(v, diffLines(lastBlockLines, currentBlockLines), 1)

\* the line-number elements FC builds beside the lines of one <pre>
RECURSIVE LineNumbersCountingRemoved(_, _)
LineNumbersCountingRemoved(els, i) ==
    IF els = <<>> THEN <<>>
    ELSE <<[text |-> DecimalString(i) \o <<":", " ">>, removed |-> Head(els).cls = Removed,
            collapsed |-> FALSE, opacity |-> "", marginLeft |-> ""]>>
         \o LineNumbersCountingRemoved(Tail(els), i + 1)

RECURSIVE LineNumbersFor(_, _)
LineNumbersFor(els, i) ==
    IF els = <<>> THEN <<>>
    ELSE IF Head(els).cls = Removed
         THEN <<[text |-> <<>>, removed |-> TRUE, collapsed |-> FALSE,
                 opacity |-> "", marginLeft |-> ""]>>
              \o LineNumbersFor(Tail(els), i)
         ELSE <<[text |-> DecimalString(i) \o <<":", " ">>, removed |-> FALSE,
                 collapsed |-> FALSE, opacity |-> "", marginLeft |-> ""]>>
              \o LineNumbersFor(Tail(els), i + 1)

Changed(el) == el.cls = Removed \/ el.cls = Added

\* shouldBeCollapsed(index), with the 0-based index of the code taken 1-based
ShouldBeCollapsedBeforeOnly(els, index) ==
    /\ els[index].cls = Same
    /\ (index - 1 < 1 \/ ~Changed(els[index - 1]))
ShouldBeCollapsed(els, index) ==
    /\ els[index].cls = Same
    /\ (index - 1 < 1 \/ ~Changed(els[index - 1]))
    /\ (index + 1 > Len(els) \/ ~Changed(els[index + 1]))

\* the <pre> built by the blockElements.map callback of _generateDomForCode
PreFor(v, blockName, idx, els, gen) ==
    LET numbers == IF v = "FC" THEN LineNumbersFor(els, 1) ELSE <<>>
        mark(i) == v = "FC" /\ ShouldBeCollapsed(els, i)
    IN  [name |-> blockName, idx |-> idx, gen |-> gen,
         lines |-> [i \in 1..Len(els) |-> [els[i] EXCEPT !.collapsed = mark(i)]],
         lineNumbers |-> [i \in 1..Len(numbers) |-> [numbers[i] EXCEPT !.collapsed = mark(i)]],
         positioned |-> FALSE, top |-> 0]

\* the blockElements of one group: the first block alone, then consecutive pairs
BlockElements(v, blocks) ==
    [i \in 1..Len(blocks) |->
        IF i = 1 THEN GenerateSingleForCode(blocks[1])
        ELSE GenerateDiffsForCode(v, blocks[i - 1], blocks[i])]

\* the loop body of _generateDomForCode for one entry of codeBlockMap
PreBlockElements(v, entry, gen) ==
    LET blockElements == BlockElements(v, entry.blocks)
    IN  [i \in 1..Len(blockElements) |-> PreFor(v, entry.name, i - 1, blockElements[i], gen)]

\* _generateDomForCode: the new codeBlockElMap
GenerateDomForCode(v, map, gen) ==
    [k \in 1..Len(map) |-> [name |-> map[k].name, frames |-> PreBlockElements(v, map[k], gen)]]

\* all frames of an element map in the order they are appended to this.code
RECURSIVE AllFrames(_)
AllFrames(elMap) ==
    IF elMap = <<>> THEN <<>> ELSE Head(elMap).frames \o AllFrames(Tail(elMap))

-----------------------------------------------------------------------------
(* Layout values read from the browser *)

LineHeight == 16      \* height of one rendered line of a frame
AnchorGap == 100      \* vertical distance between consecutive blocks of the document

\* marker.offsetTop of the node at position k of this.markdown
OffsetTop(k) == k * AnchorGap
\* block.clientHeight of a frame
ClientHeight(frame) == LineHeight * Len(frame.lines)

-----------------------------------------------------------------------------
(* Documents: what marked() renders, as far as parse reads it.  A block is *)
(* a <pre> element preceded by a "- file" comment: id is the name in the   *)
(* comment (FC) and in the language class of the <code> child (IC);        *)
(* comment "bad" is a "- file" comment with no ":" part; hasCode FALSE is  *)
(* a <pre> with no <code> child.                                           *)

Ids == {"f", "g"}

Block(id, comment, hasCode, content) ==
    [id |-> id, comment |-> comment, hasCode |-> hasCode, content |-> content]

PreNode == [kind |-> "pre", name |-> "", idx |-> 0]
MarkerNode(name, idx) == [kind |-> "marker", name |-> name, idx |-> idx]

\* this.codeBlockMap[name] || []
BlocksOf(map, name) ==
    IF \E k \in 1..Len(map) : map[k].name = name
    THEN map[CHOOSE k \in 1..Len(map) : map[k].name = name].blocks
    ELSE <<>>

\* this.codeBlockMap[name] = blocks, keeping the insertion order of the keys
PutBlocks(map, name, blocks) ==
    IF \E k \in 1..Len(map) : map[k].name = name
    THEN [k \in 1..Len(map) |-> IF map[k].name = name
                                THEN [name |-> name, blocks |-> blocks] ELSE map[k]]
    ELSE Append(map, [name |-> name, blocks |-> blocks])

\* preBlocks.forEach of parse, from block `index` on: the markers put into
\* this.markdown and the entries put into this.codeBlockMap, up to the end
\* or to the first exception
RECURSIVE ForEachPreBlock(_, _, _, _, _)
ForEachPreBlock(v, doc, index, md, map) ==
    IF index > Len(doc) THEN [threw |-> FALSE, markdown |-> md, codeBlockMap |-> map]
    ELSE
    LET b == doc[index]
        existing == BlocksOf(map, b.id)
        marked == [md EXCEPT ![index] = MarkerNode(b.id, Len(existing))]
    IN  IF ~b.hasCode
        THEN \* IC reads codeBlock.className before the replacement, FC reads
             \* codeBlock.innerHTML after it
             [threw |-> TRUE, markdown |-> IF v = "IC" THEN md ELSE marked,
              codeBlockMap |-> map]
        ELSE ForEachPreBlock(v, doc, index + 1, marked,
                             PutBlocks(map, b.id,
                                       Append(existing, AddLinesToCodeBlock(v, b.content))))

\* getElementsByClassName(`__bid_${blockName}_${i}`)[0]: position of the first marker
MarkerPosition(md, blockName, i) ==
    CHOOSE k \in 1..Len(md) :
        /\ md[k].kind = "marker" /\ md[k].name = blockName /\ md[k].idx = i
        /\ \A j \in 1..(k-1) :
              ~(md[j].kind = "marker" /\ md[j].name = blockName /\ md[j].idx = i)

\* block.style.top as assigned by _updateVerticalPositionsForCodeBlocks
TopFor(v, frame, markerTop) ==
    IF v = "FC" THEN markerTop - (ClientHeight(frame) \div 2) ELSE markerTop

\* the inner loop body of _updateVerticalPositionsForCodeBlocks
PositionedFrame(v, frame, md) ==
    [frame EXCEPT !.positioned = TRUE,
                  !.top = TopFor(v, frame,
                                 OffsetTop(MarkerPosition(md, frame.name, frame.idx)))]

\* _updateVerticalPositionsForCodeBlocks
UpdateVerticalPositionsForCodeBlocks(v, elMap, md) ==
    [k \in 1..Len(elMap) |->
        [name |-> elMap[k].name,
         frames |-> [i \in 1..Len(elMap[k].frames) |->
                        PositionedFrame(v, elMap[k].frames[i], md)]]]

\* identity of a frame element among the children of this.code
FrameId(frame) == [gen |-> frame.gen, name |-> frame.name, idx |-> frame.idx]

-----------------------------------------------------------------------------
(* parse(markdownString), the whole call *)

ParseDoc(doc) ==
    LET fresh == [k \in 1..Len(doc) |-> PreNode]
        gen == parses + 1
    IN  /\ parses' = gen
        /\ variant' = variant
        /\ document' = doc
        /\ UNCHANGED <<scrollY, innerHeight>>
        /\ IF variant = "FC" /\ \E k \in 1..Len(doc) : doc[k].comment = "bad"
           THEN \* split[1].trim() fails while the file ids are collected
                /\ markdown' = fresh
                /\ threw' = TRUE
                /\ UNCHANGED <<codeBlockMap, codeBlockElMap, code>>
           ELSE LET loop == ForEachPreBlock(variant, doc, 1, fresh, <<>>)
                IN  /\ markdown' = loop.markdown
                    /\ codeBlockMap' = loop.codeBlockMap
                    /\ threw' = loop.threw
                    /\ IF loop.threw
                       THEN UNCHANGED <<codeBlockElMap, code>>
                       ELSE LET built == GenerateDomForCode(variant, loop.codeBlockMap, gen)
                                frames == AllFrames(built)
                            IN  /\ code' = code \o [i \in 1..Len(frames) |-> FrameId(frames[i])]
                                /\ codeBlockElMap' =
                                     UpdateVerticalPositionsForCodeBlocks(variant, built,
                                                                          loop.markdown)

-----------------------------------------------------------------------------
(* _scroll(e) and _setOpacityLineByLine.  The midpoint window.scrollY +    *)
(* window.innerHeight / 2 may fall on a half pixel, so the scroll start    *)
(* and the percentage are carried doubled.                                 *)

TransitionLength == 1     \* default of the transitionLength parameter

\* twice Math.max(Math.min((scrollCurrent - scrollStart) / transitionLength, 1), 0)
TwicePercentage(scrollCurrent, twiceScrollStart) ==
    LET twice == (2 * scrollCurrent - twiceScrollStart) \div TransitionLength
    IN  IF twice >= 2 THEN 2 ELSE IF twice <= 0 THEN 0 ELSE twice

Shown == [opacity |-> "1", marginLeft |-> "0"]

\* the branch for a div of class __ic_added
AddedStyleBelowOne(twicePercentage) ==
    IF twicePercentage < 2 THEN Shown
    ELSE [opacity |-> "0", marginLeft |-> "clientWidth"]
AddedStyle(twicePercentage) ==
    IF twicePercentage = 0 THEN Shown
    ELSE [opacity |-> "0", marginLeft |-> "clientWidth"]

\* the branch for a div of class __ic_removed
RemovedStyle(twicePercentage) ==
    IF twicePercentage = 2 THEN Shown
    ELSE [opacity |-> "0", marginLeft |-> "-clientWidth"]

WithStyle(el, style) ==
    [el EXCEPT !.opacity = style.opacity, !.marginLeft = style.marginLeft]

\* the loop body for one line element
StyledLineCollapsing(v, el, twicePercentage) ==
    CASE el.cls = Added   -> [WithStyle(el, AddedStyle(twicePercentage))
                                EXCEPT !.collapsed = twicePercentage # 0]
      [] el.cls = Removed -> [WithStyle(el, RemovedStyle(twicePercentage))
                                EXCEPT !.collapsed = twicePercentage # 2]
      [] OTHER            -> el
StyledLine(v, el, twicePercentage) ==
    CASE el.cls = Added   -> WithStyle(el, AddedStyle(twicePercentage))
      [] el.cls = Removed -> WithStyle(el, RemovedStyle(twicePercentage))
      [] OTHER            -> IF v = "IC" THEN [el EXCEPT !.opacity = "0.7"] ELSE el

\* the loop body for one line-number element of FC: its only class the branches
\* test for is __ic_removed
StyledLineNumber(el, twicePercentage) ==
    IF el.removed THEN WithStyle(el, RemovedStyle(twicePercentage)) ELSE el

\* _setOpacityLineByLine(block, null, 1, 0, scrollCurrent, scrollStart): the divs
\* of the block are its line elements and, in FC, its line-number elements
SetOpacityLineByLine(v, block, scrollCurrent, twiceScrollStart) ==
    LET twicePercentage == TwicePercentage(scrollCurrent, twiceScrollStart)
    IN  [block EXCEPT
            !.lines = [i \in 1..Len(block.lines) |->
                          StyledLine(v, block.lines[i], twicePercentage)],
            !.lineNumbers = [i \in 1..Len(block.lineNumbers) |->
                                StyledLineNumber(block.lineNumbers[i], twicePercentage)]]

\* block.offsetTop of a frame placed by _updateVerticalPositionsForCodeBlocks
BlockOffsetTop(block) == block.top

\* twice the midPoint of _scroll
TwiceMidPoint(y, height) == 2 * y + height

\* the loops of _scroll over this.codeBlockElMap
ScrollBlocks(v, elMap, twiceMidPoint) ==
    [k \in 1..Len(elMap) |->
        [name |-> elMap[k].name,
         frames |-> [i \in 1..Len(elMap[k].frames) |->
                        SetOpacityLineByLine(v, elMap[k].frames[i],
                                             BlockOffsetTop(elMap[k].frames[i]),
                                             twiceMidPoint)]]]

\* a scroll event: the window is at position y and _scroll runs
ScrollTo(y) ==
    /\ scrollY' = y
    /\ codeBlockElMap' = ScrollBlocks(variant, codeBlockElMap, TwiceMidPoint(y, innerHeight))
    /\ UNCHANGED <<variant, markdown, codeBlockMap, code, parses, threw, document, innerHeight>>

-----------------------------------------------------------------------------
(* Inputs *)

\* snapshot texts of the documents given to parse in Spec
SnapshotTexts == { <<"a">>, <<"a", NL, "b">> }

BlocksFor(v, texts) ==
    LET comments == IF v = "FC" THEN {"ok", "bad"} ELSE {"ok"}
    IN  { Block(id, c, TRUE, t) : id \in Ids, c \in comments, t \in texts }
        \cup { Block(id, c, FALSE, <<>>) : id \in Ids, c \in comments }

Docs(v) ==
    UNION { [1..n -> BlocksFor(v, SnapshotTexts)] : n \in 0..MaxBlocks }

\* lines the generated snapshot texts of SpecDiff are made of
Vocabulary == { <<>>, <<"a">>, <<"b">>, <<"1", ":", " ", "a">> }

GeneratedTexts ==
    { JoinNL(ls) : ls \in UNION { [1..n -> Vocabulary] : n \in 1..MaxLines } }

\* "a\nb\nc" and "a\nx\nc"
ScenarioB1 == <<"a", NL, "b", NL, "c">>
ScenarioB2 == <<"a", NL, "x", NL, "c">>
\* ten lines ending in "b", and the same after one more line "a" in front
TenLines == JoinNL([i \in 1..10 |-> IF i = 10 THEN <<"b">> ELSE <<"a">>])
ElevenLines == JoinNL([i \in 1..11 |-> IF i = 11 THEN <<"b">> ELSE <<"a">>])

DiffTexts == GeneratedTexts \cup {ScenarioB1, ScenarioB2, TenLines, ElevenLines}

\* documents of one group "f" with one snapshot or two
PairDocs ==
    { <<Block("f", "ok", TRUE, t)>> : t \in DiffTexts }
    \cup { <<Block("f", "ok", TRUE, t1), Block("f", "ok", TRUE, t2)>> :
             t1 \in DiffTexts, t2 \in DiffTexts }

\* window heights: the midpoint falls on a whole pixel or on a half pixel
InnerHeights == {100, 101}

\* scroll positions: the top of the page, and places that put the midpoint at, half
\* a pixel above and one pixel above the top of a one-line first frame (92 in FC,
\* 100 in IC) and of a three-line second frame (176 in FC, 200 in IC)
ScrollPositions == {0, 41, 42, 49, 50, 125, 126, 149, 150}

Snapshot(id, text) == Block(id, "ok", TRUE, text)

\* documents given to parse in SpecScroll: no block, one or two snapshots of one
\* group, two groups, and a <pre> block with no <code> child
ScrollDocs ==
    { <<>>,
      <<Snapshot("f", <<"a">>)>>,
      <<Snapshot("f", <<"a", NL, "b">>), Snapshot("f", <<"a">>)>>,
      <<Snapshot("f", <<"a">>), Snapshot("f", <<"a", NL, "b">>)>>,
      <<Snapshot("f", <<"a", NL, "b">>), Snapshot("f", <<"a", NL, "a">>)>>,
      <<Snapshot("f", <<"a">>), Snapshot("g", <<"a", NL, "b">>)>>,
      <<Snapshot("f", <<"a">>), Block("f", "ok", FALSE, <<>>)>> }

-----------------------------------------------------------------------------
(* Specifications *)

\* the state after the constructor
Init ==
    /\ variant \in {"FC", "IC"}
    /\ markdown = <<>>
    /\ codeBlockMap = <<>>
    /\ codeBlockElMap = <<>>
    /\ code = <<>>
    /\ parses = 0
    /\ threw = FALSE
    /\ document = <<>>
    /\ scrollY = 0
    /\ innerHeight \in InnerHeights

Parse ==
    /\ parses < MaxParses
    /\ \E doc \in Docs(variant) : ParseDoc(doc)

Scroll == \E y \in ScrollPositions : ScrollTo(y)

Next == Parse \/ Scroll

Spec == Init /\ [][Next]_vars

\* a single parse of a document holding one group of one or two snapshots
ParsePair ==
    /\ parses = 0
    /\ \E doc \in PairDocs : ParseDoc(doc)

NextDiff == ParsePair

SpecDiff == Init /\ [][NextDiff]_vars

\* parse calls on a few documents, and scroll events between and after them
ParseScene ==
    /\ parses < MaxParses
    /\ \E doc \in ScrollDocs : ParseDoc(doc)

NextScroll == ParseScene \/ Scroll

SpecScroll == Init /\ [][NextScroll]_vars

-----------------------------------------------------------------------------
(* Vocabulary of the properties *)

\* the last parse call ran to its end
Completed == parses > 0 /\ ~threw

\* the texts of the snapshots of group `name` in the parsed document, in order
SnapshotsOf(name) ==
    LET InGroup(b) == b.id = name
        blocks == SelectSeq(document, InGroup)
    IN  [i \in 1..Len(blocks) |-> blocks[i].content]

\* the texts of the entries of a frame whose class is in `classes`, in order
TextsOf(frame, classes) ==
    LET Wanted(el) == el.cls \in classes
        els == SelectSeq(frame.lines, Wanted)
    IN  [i \in 1..Len(els) |-> els[i].text]

CountOf(frame, classes) == Len(TextsOf(frame, classes))

\* the frames built for consecutive snapshots: <<group entry, frame index>>, index >= 2
DiffFrames ==
    { <<k, i>> \in (1..Len(codeBlockElMap)) \X (1..30) :
         i >= 2 /\ i <= Len(codeBlockElMap[k].frames) }

\* reference: length of the longest common subsequence, by dynamic programming,
\* one row of the table per element of B
RECURSIVE LcsRow(_, _, _, _)
LcsRow(A, b, prev, acc) ==
    LET i == Len(acc)
    IN  IF i > Len(A) THEN acc
        ELSE LcsRow(A, b, prev,
                    Append(acc, IF A[i] = b THEN prev[i] + 1
                                ELSE IF prev[i + 1] >= acc[i] THEN prev[i + 1] ELSE acc[i]))

RECURSIVE LcsTable(_, _, _)
LcsTable(A, B, j) ==
    IF j = 0 THEN [i \in 1..(Len(A) + 1) |-> 0]
    ELSE LcsRow(A, B[j], LcsTable(A, B, j - 1), <<0>>)

LcsLength(A, B) == LcsTable(A, B, Len(B))[Len(A) + 1]

-----------------------------------------------------------------------------
(* C1 - C6, C10: the frames of one group, under SpecDiff *)

\* C1: in FC, every frame built from two consecutive snapshots reconstructs both:
\* its Unchanged and Added texts in order are the lines of the current snapshot
\* (its text split on the line break), its Unchanged and Removed texts in order
\* are the lines of the previous one.
C1_FrameReconstructsBothSnapshots ==
    (variant = "FC" /\ Completed) =>
        \A p \in DiffFrames :
            LET entry == codeBlockElMap[p[1]]
                snaps == SnapshotsOf(entry.name)
                frame == entry.frames[p[2]]
            IN  /\ TextsOf(frame, {Same, Added}) = SplitNL(snaps[p[2]])
                /\ TextsOf(frame, {Same, Removed}) = SplitNL(snaps[p[2] - 1])

\* C2: in FC, the number of Added plus Removed entries of a frame built from the
\* line sequences A (previous) and B (current) is |A| + |B| - 2*LCS(A, B).
C2_DiffIsMinimal ==
    (variant = "FC" /\ Completed) =>
        \A p \in DiffFrames :
            LET entry == codeBlockElMap[p[1]]
                snaps == SnapshotsOf(entry.name)
                frame == entry.frames[p[2]]
                A == SplitNL(snaps[p[2] - 1])
                B == SplitNL(snaps[p[2]])
            IN  CountOf(frame, {Added}) + CountOf(frame, {Removed})
                    = Len(A) + Len(B) - 2 * LcsLength(A, B)

\* C3: a line of the previous snapshot and a line of the current one are compared
\* as equal by the diff exactly when their source texts are identical: what
\* _addLinesToCodeBlock stores and _generateDiffsForCode strips changes neither
\* way.
C3_ComparedEqualIffIdentical ==
    Completed =>
        \A k \in 1..Len(codeBlockMap) :
            LET blocks == codeBlockMap[k].blocks
                snaps == SnapshotsOf(codeBlockMap[k].name)
            IN  \A n \in 2..Len(blocks) :
                    LET prevSrc == SplitNL(snaps[n - 1])
                        curSrc == SplitNL(snaps[n])
                    IN  \A i \in 1..Len(prevSrc), j \in 1..Len(curSrc) :
                            (StripNumberPrefix(blocks[n - 1][i]) = StripNumberPrefix(blocks[n][j]))
                                <=> (prevSrc[i] = curSrc[j])

\* every frame held in codeBlockElMap
Frames ==
    { codeBlockElMap[k].frames[i] : <<k, i>> \in
        { q \in (1..Len(codeBlockElMap)) \X (1..30) : q[2] <= Len(codeBlockElMap[q[1]].frames) } }

\* the digits, colon and blank a text starts with, if it starts that way
NumberPrefix(s) ==
    LET n == Cardinality({ i \in 1..Len(s) : \A j \in 1..i : s[j] \in DigitSet })
    IN  IF n >= 1 /\ Len(s) >= n + 2 /\ s[n + 1] = ":" /\ s[n + 2] = " "
        THEN SubSeq(s, 1, n + 2) ELSE <<>>

\* the line number displayed with entry i of a frame: FC shows it in the
\* line-number element beside the line, IC in front of the line's text
ShownNumber(frame, i) ==
    IF variant = "FC" THEN frame.lineNumbers[i].text ELSE NumberPrefix(frame.lines[i].text)

\* how many entries up to entry i are not Removed
Rank(frame, i) == Cardinality({ j \in 1..i : frame.lines[j].cls # Removed })

NumbersAreSequential(frame) ==
    \A i \in 1..Len(frame.lines) :
        IF frame.lines[i].cls = Removed
        THEN ShownNumber(frame, i) = <<>>
        ELSE ShownNumber(frame, i) = DecimalString(Rank(frame, i)) \o <<":", " ">>

\* C4: in every frame the numbers shown on the Added and Unchanged entries are
\* 1, 2, ..., k in order, and a Removed entry shows no number.
C4_LineNumbersSequential ==
    \A frame \in Frames : NumbersAreSequential(frame)

\* the same, for the frames FC builds
C4_LineNumbersSequentialInFC ==
    variant = "FC" => \A frame \in Frames : NumbersAreSequential(frame)

\* C5: in every frame FC builds, entry i carries the collapse mark exactly when it
\* is Unchanged and no neighbour it has is Added or Removed, and line-number
\* element i carries the mark exactly when entry i does.
C5_CollapseMarks ==
    variant = "FC" =>
        \A frame \in Frames :
            \A i \in 1..Len(frame.lines) :
                /\ frame.lines[i].collapsed <=>
                      /\ frame.lines[i].cls = Same
                      /\ (i > 1 => frame.lines[i - 1].cls \notin {Added, Removed})
                      /\ (i < Len(frame.lines) => frame.lines[i + 1].cls \notin {Added, Removed})
                /\ frame.lineNumbers[i].collapsed = frame.lines[i].collapsed

\* a frame of FC holding a collapsed line and an Unchanged line that is not collapsed
C5_Witness ==
    /\ variant = "FC"
    /\ \E frame \in Frames :
          /\ \E i \in 1..Len(frame.lines) : frame.lines[i].collapsed
          /\ \E i \in 1..Len(frame.lines) :
                frame.lines[i].cls = Same /\ ~frame.lines[i].collapsed

\* the parsed document is the group "a\nb\nc", "a\nx\nc" and FC built its frames
ScenarioBParsed ==
    /\ variant = "FC"
    /\ Completed
    /\ Len(document) = 2
    /\ document[1].content = ScenarioB1
    /\ document[2].content = ScenarioB2

\* entry i of a frame as <<class, text, shown number, collapsed>>
EntryOf(frame, i) ==
    <<frame.lines[i].cls, frame.lines[i].text, ShownNumber(frame, i), frame.lines[i].collapsed>>

EntriesOf(frame) == [i \in 1..Len(frame.lines) |-> EntryOf(frame, i)]

\* C6 as stated: for the snapshots "a\nb\nc", "a\nx\nc" Frame 1 is Unchanged a (1),
\* Removed b (no number), Added x (2), Unchanged c (3), with a and c marked
\* collapsible and b and x not.
C6_ScenarioB_AsStated ==
    ScenarioBParsed =>
        EntriesOf(codeBlockElMap[1].frames[2]) =
            << <<Same, <<"a">>, <<"1", ":", " ">>, TRUE>>,
               <<Removed, <<"b">>, <<>>, FALSE>>,
               <<Added, <<"x">>, <<"2", ":", " ">>, FALSE>>,
               <<Same, <<"c">>, <<"3", ":", " ">>, TRUE>> >>

\* C6 amended: the same four entries in the same order with the same numbers,
\* none of them marked collapsible (a and c each have a changed neighbour).
C6_ScenarioB ==
    ScenarioBParsed =>
        EntriesOf(codeBlockElMap[1].frames[2]) =
            << <<Same, <<"a">>, <<"1", ":", " ">>, FALSE>>,
               <<Removed, <<"b">>, <<>>, FALSE>>,
               <<Added, <<"x">>, <<"2", ":", " ">>, FALSE>>,
               <<Same, <<"c">>, <<"3", ":", " ">>, FALSE>> >>

C6_Witness == ScenarioBParsed /\ Len(codeBlockElMap[1].frames) = 2

\* C10: Frame 0 of every group holds only Added entries, one per line of the first
\* snapshot, the text of entry k being line k of the snapshot's text split on the
\* line break.
C10_FirstFrameIsSnapshot ==
    Completed =>
        \A k \in 1..Len(codeBlockElMap) :
            LET frame == codeBlockElMap[k].frames[1]
                first == SplitNL(SnapshotsOf(codeBlockElMap[k].name)[1])
            IN  /\ \A i \in 1..Len(frame.lines) : frame.lines[i].cls = Added
                /\ [i \in 1..Len(frame.lines) |-> frame.lines[i].text] = first

\* the same, for the frames FC builds
C10_FirstFrameIsSnapshotInFC == variant = "FC" => C10_FirstFrameIsSnapshot

-----------------------------------------------------------------------------
(* C7 - C9: sequences of parse calls, under Spec *)

\* C7: after a parse call that ran to its end, every frame held in codeBlockElMap
\* and every frame attached under the code container was built by that call.
C7_OnlyLatestParseShown ==
    Completed =>
        /\ \A frame \in Frames : frame.gen = parses
        /\ \A i \in 1..Len(code) : code[i].gen = parses

\* the markers of the document with their places
Markers(md) == { <<k, md[k].name, md[k].idx>> : k \in { j \in 1..Len(md) : md[j].kind = "marker" } }

\* C8: a parse call that ends with an exception exposes nothing of its own: the
\* snapshot map, the frame map, the frames under the code container and the
\* markers in the document are those from before the call.
C8_ParseIsAtomic ==
    [][threw' => /\ codeBlockMap' = codeBlockMap
                 /\ codeBlockElMap' = codeBlockElMap
                 /\ code' = code
                 /\ Markers(markdown') = Markers(markdown)]_vars

\* the place in the document of the i-th block of group `name`
OccurrencePosition(name, i) ==
    CHOOSE k \in 1..Len(document) :
        /\ document[k].id = name
        /\ Cardinality({ j \in 1..k : document[j].id = name }) = i

FramesCenteredOnAnchors ==
    /\ { codeBlockElMap[k].name : k \in 1..Len(codeBlockElMap) }
          = { document[k].id : k \in 1..Len(document) }
    /\ \A k \in 1..Len(codeBlockElMap) :
          LET name == codeBlockElMap[k].name
              frames == codeBlockElMap[k].frames
          IN  /\ Len(frames) = Len(SnapshotsOf(name))
              /\ \A i \in 1..Len(frames) :
                    /\ frames[i].positioned
                    /\ 2 * frames[i].top
                          = 2 * OffsetTop(OccurrencePosition(name, i)) - ClientHeight(frames[i])

\* C9: after a parse call that ran to its end, every group has one frame per
\* snapshot, and frame i is placed at the offset of the marker of the i-th
\* occurrence of its group in the document, less half the frame's height.
C9_FramesCenteredOnAnchors == Completed => FramesCenteredOnAnchors

\* the same, for the frames FC builds
C9_FramesCenteredOnAnchorsInFC == (variant = "FC" /\ Completed) => FramesCenteredOnAnchors

-----------------------------------------------------------------------------
(* Scrolling *)

\* what a frame of the timeline says apart from presentation values
EntryApartFromStyle(frame, i) ==
    [cls |-> frame.lines[i].cls, text |-> frame.lines[i].text,
     collapsed |-> frame.lines[i].collapsed,
     number |-> IF i \in DOMAIN frame.lineNumbers
                THEN [text |-> frame.lineNumbers[i].text,
                      removed |-> frame.lineNumbers[i].removed,
                      collapsed |-> frame.lineNumbers[i].collapsed]
                ELSE [text |-> "", removed |-> FALSE, collapsed |-> FALSE]]

FrameApartFromStyle(frame) ==
    [name |-> frame.name, idx |-> frame.idx, gen |-> frame.gen,
     positioned |-> frame.positioned, top |-> frame.top,
     numbers |-> Len(frame.lineNumbers),
     entries |-> [i \in 1..Len(frame.lines) |-> EntryApartFromStyle(frame, i)]]

TimelineApartFromStyle(elMap) ==
    [k \in 1..Len(elMap) |->
        [name |-> elMap[k].name,
         frames |-> [i \in 1..Len(elMap[k].frames) |->
                        FrameApartFromStyle(elMap[k].frames[i])]]]

\* a step that is a scroll event: every parse call counts one more parse
IsScrollStep == parses' = parses

\* C11: a scroll event leaves the groups, the frames of each group, the entries of
\* each frame and every entry's classification, text, line number and collapse mark
\* as they were, and the snapshots, the document and the container as well; it may
\* change opacity and horizontal margin only.  Before the first parse there are no
\* frames, so it changes nothing.
C11_ScrollKeepsTimeline ==
    [][IsScrollStep =>
          /\ TimelineApartFromStyle(codeBlockElMap') = TimelineApartFromStyle(codeBlockElMap)
          /\ UNCHANGED <<variant, markdown, codeBlockMap, code, threw, document>>
          /\ (parses = 0 => codeBlockElMap' = codeBlockElMap)]_vars

\* a scroll event has restyled a frame that holds Added, Removed and Unchanged or
\* only Added and Removed entries, and the frame still has its three entries
C11_Witness ==
    \E frame \in Frames :
        /\ \E i \in DOMAIN frame.lines : frame.lines[i].cls = Removed /\ frame.lines[i].opacity = "1"
        /\ \E i \in DOMAIN frame.lines : frame.lines[i].cls = Added /\ frame.lines[i].opacity = "0"
        /\ Len(frame.lines) = 3

\* the entries of a frame with a given classification
EntriesWith(frame, cls) == { i \in DOMAIN frame.lines : frame.lines[i].cls = cls }

IsShown(el) == el.opacity = "1" /\ el.marginLeft = "0"
IsHidden(el) == el.opacity = "0"

\* the frame's top offset is at or above the viewport midpoint scrollY + innerHeight / 2
AtOrAboveMidPoint(frame, y, height) == 2 * frame.top <= 2 * y + height

\* the frame's top offset is at least the transition length below the midpoint
WellBelowMidPoint(frame, y, height) ==
    2 * frame.top - (2 * y + height) >= 2 * TransitionLength

\* how a frame looks right after a scroll event at position y
PresentedFor(frame, y, height) ==
    /\ \A i \in EntriesWith(frame, Added) :
          IF AtOrAboveMidPoint(frame, y, height)
          THEN IsShown(frame.lines[i]) ELSE IsHidden(frame.lines[i])
    /\ \A i \in EntriesWith(frame, Removed) :
          IF WellBelowMidPoint(frame, y, height)
          THEN IsShown(frame.lines[i]) ELSE IsHidden(frame.lines[i])
    /\ \A i \in EntriesWith(frame, Same) : ~IsHidden(frame.lines[i])
    /\ ~ /\ \E i \in EntriesWith(frame, Added) : ~IsHidden(frame.lines[i])
         /\ \E i \in EntriesWith(frame, Removed) : ~IsHidden(frame.lines[i])

====
